---- MODULE Spec2Model ----
(***************************************************************************)
(* A model of src/repository.rs: the on-disk layout of a gitrs repository. *)
(*                                                                         *)
(* The filesystem is a function from the canonical absolute paths that     *)
(* exist (sequences of component names, <<>> being the root directory) to  *)
(* nodes: a directory, or a regular file with its bytes.  The operations   *)
(* of Repository are operators from a filesystem to a new filesystem and   *)
(* an outcome; a panic of the Rust code is the outcome kind "panic" with   *)
(* the panic's message.                                                    *)
(***************************************************************************)
EXTENDS Integers, Sequences, FiniteSets, TLC

VARIABLES
    fs,       \* the filesystem: [existing canonical paths -> node]
    last,     \* the last completed call of init / upsert_file / get_path_to_*
    find,     \* the call of find_repository in progress or just completed
    written,  \* history: <<worktree, segments>> -> payload of the latest successful upsert_file
    inited,   \* history: the worktrees on which init has returned a handle
    procs,    \* the two concurrent callers of init (specification ConcSpec)
    overflow_checks  \* the build: TRUE when arithmetic overflow is checked (cargo's
                     \* dev profile), FALSE when it wraps around (the release profile)

vars == <<fs, last, find, written, inited, procs, overflow_checks>>

-----------------------------------------------------------------------------
(* Bounds of the model *)

\* longest payload handed to upsert_file
MaxPayloadLen == 1

\* the byte values payloads are made of: one with an 8-bit and one with a
\* 9-bit code in deflate's fixed Huffman table
ByteVals == {65, 255}

Payloads == UNION {[1..n -> ByteVals] : n \in 0..MaxPayloadLen}

-----------------------------------------------------------------------------
(* Paths and the filesystem *)

GitDirName == ".gitrs"

DirNode == [kind |-> "dir", data |-> <<>>]
FileNode(bytes) == [kind |-> "file", data |-> bytes]

Prefixes(p) == {SubSeq(p, 1, k) : k \in 0..Len(p)}

\* Path::join / PathBuf::push of relative components
Join(p, segs) == p \o segs

\* Path::exists, on a canonical path
Exists(f, p) == p \in DOMAIN f

\* Path::is_dir
IsDir(f, p) == p \in DOMAIN f /\ f[p].kind = "dir"

IsFile(f, p) == p \in DOMAIN f /\ f[p].kind = "file"

\* the entries fs::read_dir(p) yields
Entries(f, p) == {q \in DOMAIN f : Len(q) = Len(p) + 1 /\ SubSeq(q, 1, Len(p)) = p}

\* Path::parent is None exactly at the root
HasParentAlways(p) == TRUE

HasParent(p) == Len(p) > 0

PathParent(p) == SubSeq(p, 1, Len(p) - 1)

\* fs::canonicalize: every component is resolved in turn against the
\* filesystem; ".." steps to the parent (the root is its own parent); a
\* component that does not exist, or a step through a non-directory, is an error.
RECURSIVE CanonFrom(_, _, _)
CanonFrom(f, q, rest) ==
    IF rest = <<>> THEN [ok |-> TRUE, path |-> q]
    ELSE IF ~IsDir(f, q) THEN [ok |-> FALSE, path |-> <<>>]
    ELSE IF Head(rest) = ".." THEN CanonFrom(f, PathParent(q), Tail(rest))
    ELSE IF Exists(f, Append(q, Head(rest)))
         THEN CanonFrom(f, Append(q, Head(rest)), Tail(rest))
         ELSE [ok |-> FALSE, path |-> <<>>]

canonicalize(f, p) == CanonFrom(f, <<>>, p)

\* mkdir(2): one directory is created; its parent must be an existing
\* directory and the path itself must not exist
Mkdir(f, p) ==
    IF p \in DOMAIN f THEN [err |-> "EEXIST", fs |-> f]
    ELSE IF \E q \in Prefixes(p) : IsFile(f, q) THEN [err |-> "ENOTDIR", fs |-> f]
    ELSE IF ~Exists(f, PathParent(p)) THEN [err |-> "ENOENT", fs |-> f]
    ELSE [err |-> "ok", fs |-> [q \in DOMAIN f \cup {p} |-> IF q = p THEN DirNode ELSE f[q]]]

\* fs::create_dir_all absorbs a failed mkdir when the path is a directory
\* (Err(_) if path.is_dir() => Ok(()))
MkdirErrorNotAbsorbed(f, p) == FALSE

mkdir_error_absorbed(f, p) == IsDir(f, p)

\* The state of a fs::create_dir_all call: the filesystem; stack, the paths
\* of the nested create_dir_all invocations, innermost first; second, whether
\* the innermost one is at its mkdir after the recursion on the parent (else
\* it is at its first mkdir); failed, whether the call has returned an error.
CreateDirAllCall(f, p) == [fs |-> f, stack |-> <<p>>, second |-> FALSE, failed |-> FALSE]

\* What follows the result r of mkdir(path): a first mkdir that fails with
\* NotFound recurses on the parent; any other failure is absorbed when the
\* path is a directory, and is the error of the whole call otherwise.  An
\* invocation that returns leaves its caller at the caller's second mkdir.
create_dir_all_after(st, path, r) ==
    IF r.err = "ok"
    THEN [st EXCEPT !.fs = r.fs, !.stack = Tail(st.stack), !.second = TRUE]
    ELSE IF ~st.second /\ r.err = "ENOENT" /\ HasParent(path)
    THEN [st EXCEPT !.stack = <<PathParent(path)>> \o st.stack, !.second = FALSE]
    ELSE IF (st.second \/ r.err # "ENOENT") /\ mkdir_error_absorbed(st.fs, path)
    THEN [st EXCEPT !.stack = Tail(st.stack), !.second = TRUE]
    ELSE [st EXCEPT !.failed = TRUE]

\* one mkdir call of fs::create_dir_all
create_dir_all_step(st) == create_dir_all_after(st, Head(st.stack), Mkdir(st.fs, Head(st.stack)))

RECURSIVE create_dir_all_run(_)
create_dir_all_run(st) ==
    IF st.failed \/ st.stack = <<>> THEN [ok |-> ~st.failed, fs |-> st.fs]
    ELSE create_dir_all_run(create_dir_all_step(st))

\* fs::create_dir_all, run to its end without another caller in between
create_dir_all(f, p) == create_dir_all_run(CreateDirAllCall(f, p))

\* File::create: opens write-only, creating the file or truncating it; fails
\* when the parent is not an existing directory or the path is a directory.
FileCreateNoTruncate(f, p) ==
    IF p = <<>> \/ ~IsDir(f, PathParent(p)) \/ IsDir(f, p)
    THEN [ok |-> FALSE, fs |-> f]
    ELSE [ok |-> TRUE,
          fs |-> [q \in DOMAIN f \cup {p} |->
                    IF q \in DOMAIN f THEN f[q] ELSE FileNode(<<>>)]]

FileCreate(f, p) ==
    IF p = <<>> \/ ~IsDir(f, PathParent(p)) \/ IsDir(f, p)
    THEN [ok |-> FALSE, fs |-> f]
    ELSE [ok |-> TRUE,
          fs |-> [q \in DOMAIN f \cup {p} |->
                    IF q = p THEN FileNode(<<>>) ELSE f[q]]]

\* Write::write_all on a freshly opened file: the bytes go to offset 0 and
\* replace what was there; bytes of the file beyond them stay.
WriteAll(f, p, bytes) ==
    [f EXCEPT ![p] = FileNode(bytes \o SubSeq(f[p].data, Len(bytes) + 1, Len(f[p].data)))]

-----------------------------------------------------------------------------
(* flate2's ZlibEncoder at Compression::default(): the zlib stream of a      *)
(* payload.  The stream is the header 78 9C, the deflate body packed         *)
(* least-significant bit first, and the Adler-32 of the payload, big-endian. *)
(* The body is modelled for the payloads too short to hold a match (a match  *)
(* repeats at least MinMatchLen earlier bytes): for these the encoder emits  *)
(* one final block of fixed-Huffman literals and the end-of-block code.  For *)
(* longer payloads the encoder chooses among matches and stored, fixed and   *)
(* dynamic blocks; DeflateBits, and with it ZlibEncode, has no value there.  *)

\* deflate's shortest match
MinMatchLen == 3

Pow2(n) == 2 ^ n

\* the n low bits of v, most significant first (Huffman codes are packed so)
MsbBits(v, n) == [i \in 1..n |-> (v \div Pow2(n - i)) % 2]

\* fixed Huffman code of a literal byte: 0..143 -> 8 bits from 00110000,
\* 144..255 -> 9 bits from 110010000
LitBits(lit) == IF lit <= 143 THEN MsbBits(48 + lit, 8) ELSE MsbBits(400 + (lit - 144), 9)

RECURSIVE LitsBits(_)
LitsBits(data) == IF data = <<>> THEN <<>> ELSE LitBits(Head(data)) \o LitsBits(Tail(data))

\* BFINAL = 1, BTYPE = 01, the literals, end-of-block (seven zero bits);
\* defined for payloads of at most MinMatchLen bytes only
DeflateBits(data) ==
    CASE Len(data) <= MinMatchLen -> <<1, 1, 0>> \o LitsBits(data) \o <<0, 0, 0, 0, 0, 0, 0>>

BitAt(bits, i) == IF i <= Len(bits) THEN bits[i] ELSE 0

PackBytes(bits) ==
    [k \in 1..((Len(bits) + 7) \div 8) |->
        BitAt(bits, 8 * k - 7)      + 2 * BitAt(bits, 8 * k - 6)
      + 4 * BitAt(bits, 8 * k - 5)  + 8 * BitAt(bits, 8 * k - 4)
      + 16 * BitAt(bits, 8 * k - 3) + 32 * BitAt(bits, 8 * k - 2)
      + 64 * BitAt(bits, 8 * k - 1) + 128 * BitAt(bits, 8 * k)]

RECURSIVE AdlerAB(_, _, _)
AdlerAB(data, a, b) ==
    IF data = <<>> THEN <<a, b>>
    ELSE AdlerAB(Tail(data), (a + Head(data)) % 65521, (b + ((a + Head(data)) % 65521)) % 65521)

Adler32Bytes(data) ==
    LET ab == AdlerAB(data, 1, 0)
    IN  <<ab[2] \div 256, ab[2] % 256, ab[1] \div 256, ab[1] % 256>>

ZlibEncode(data) == <<120, 156>> \o PackBytes(DeflateBits(data)) \o Adler32Bytes(data)

-----------------------------------------------------------------------------
(* Outcomes of a call: a returned value or a panic *)

NoPath == <<>>

Handle(worktree) == [kind |-> "handle", path |-> worktree, msg |-> ""]
SomePath(p)      == [kind |-> "some", path |-> p, msg |-> ""]
None             == [kind |-> "none", path |-> NoPath, msg |-> ""]
Unit             == [kind |-> "unit", path |-> NoPath, msg |-> ""]
Panic(m)         == [kind |-> "panic", path |-> NoPath, msg |-> m]

Res(f, o) == [fs |-> f, out |-> o]

-----------------------------------------------------------------------------
(* Repository *)

\* Repository::new: gitdir is worktree.join(".gitrs")
New(worktree) == [worktree |-> worktree, gitdir |-> Join(worktree, <<GitDirName>>)]

\* fn is_empty_dir
IsEmptyDirAlways(f, path) == TRUE

is_empty_dir(f, path) == IsDir(f, path) /\ Entries(f, path) = {}

\* Repository::repo_path
repo_path(repo, paths) == Join(repo.gitdir, paths)

\* Repository::repo_dir
RepoDirSkipsTags(f, repo, paths, should_mkdir) ==
    LET path == repo_path(repo, paths)
    IN  IF Exists(f, path)
        THEN IF ~IsDir(f, path) THEN Res(f, Panic("Expected a directory at"))
             ELSE Res(f, SomePath(path))
        ELSE IF should_mkdir /\ paths # <<"refs", "tags">>
        THEN LET r == create_dir_all(f, path)
             IN  IF r.ok THEN Res(r.fs, SomePath(path))
                 ELSE Res(r.fs, Panic("Failed to create the path"))
        ELSE IF should_mkdir THEN Res(f, SomePath(path))
        ELSE Res(f, None)

repo_dir(f, repo, paths, should_mkdir) ==
    LET path == repo_path(repo, paths)
    IN  IF Exists(f, path)
        THEN IF ~IsDir(f, path) THEN Res(f, Panic("Expected a directory at"))
             ELSE Res(f, SomePath(path))
        ELSE IF should_mkdir
        THEN LET r == create_dir_all(f, path)
             IN  IF r.ok THEN Res(r.fs, SomePath(path))
                 ELSE Res(r.fs, Panic("Failed to create the path"))
        ELSE Res(f, None)

\* Repository::repo_file; paths[..paths.len() - 1] of an empty slice panics:
\* at the subtraction in a build with overflow checks, and otherwise at the
\* slice, whose end index has wrapped around to usize::MAX
repo_file(f, repo, paths, should_mkdir, checks) ==
    IF paths = <<>>
    THEN IF checks THEN Res(f, Panic("attempt to subtract with overflow"))
         ELSE Res(f, Panic("range end index 18446744073709551615 out of range for slice of length 0"))
    ELSE LET r == repo_dir(f, repo, SubSeq(paths, 1, Len(paths) - 1), should_mkdir)
         IN  IF r.out.kind = "some" THEN Res(r.fs, SomePath(repo_path(repo, paths)))
             ELSE r

\* Repository::write_to_repo_file: File::create, then write_all
write_to_repo_file(f, path, content) ==
    LET c == FileCreate(f, path)
    IN  IF c.ok THEN Res(WriteAll(c.fs, path, content), Unit)
        ELSE Res(c.fs, Panic("Could not create file"))

\* the byte strings init writes (lines 58 and 65)
DescriptionContent ==
    <<85, 110, 97, 109, 101, 100, 32, 114, 101, 112, 111, 115, 105, 116, 111, 114,
      121, 59, 32, 101, 100, 105, 116, 32, 116, 104, 105, 115, 32, 102, 105, 108,
      101, 32, 39, 100, 101, 115, 99, 114, 105, 112, 116, 105, 111, 110, 39, 32,
      116, 111, 32, 110, 97, 109, 101, 32, 116, 104, 101, 32, 114, 101, 112, 111,
      115, 105, 116, 111, 114, 121, 46, 10>>

HeadContent ==
    <<114, 101, 102, 58, 32, 114, 101, 102, 115, 47, 104, 101, 97, 100, 115, 47,
      109, 97, 115, 116, 101, 114, 10>>

\* the directories init creates, in the order of the array at lines 41-46
SkeletonDirs == <<<<"branches">>, <<"objects">>, <<"refs", "tags">>, <<"refs", "heads">>>>

\* lines 41-52: the four repo_dir(.., true) calls, in order; a panic of one ends init
RECURSIVE init_dirs(_, _, _)
init_dirs(f, repo, i) ==
    IF i > Len(SkeletonDirs) THEN Res(f, Unit)
    ELSE LET r == repo_dir(f, repo, SkeletonDirs[i], TRUE)
         IN  IF r.out.kind = "panic" THEN r
             ELSE IF r.out.kind = "none"
             THEN Res(r.fs, Panic("An error occurred when initializing the gitrs repository"))
             ELSE init_dirs(r.fs, repo, i + 1)

\* lines 54-66: repo_file(.., false).expect(..) and write_to_repo_file
init_seed(f, repo, paths, content, expect_msg, checks) ==
    LET p == repo_file(f, repo, paths, FALSE, checks)
    IN  IF p.out.kind = "panic" THEN p
        ELSE IF p.out.kind = "none" THEN Res(p.fs, Panic(expect_msg))
        ELSE write_to_repo_file(p.fs, p.out.path, content)

\* lines 39-70
init_skeleton(f, worktree, checks) ==
    LET repo == New(worktree)
        d == init_dirs(f, repo, 1)
    IN  IF d.out.kind = "panic" THEN d
        ELSE LET s1 == init_seed(d.fs, repo, <<"description">>, DescriptionContent,
                                 "Could not make descrption file", checks)
             IN  IF s1.out.kind = "panic" THEN s1
                 ELSE LET s2 == init_seed(s1.fs, repo, <<"HEAD">>, HeadContent,
                                          "Could not make HEAD file", checks)
                      IN  IF s2.out.kind = "panic" THEN s2
                          ELSE Res(s2.fs, Handle(worktree))

\* Repository::init
init(f, worktree, checks) ==
    LET gitdir == Join(worktree, <<GitDirName>>)
    IN  IF Exists(f, worktree)
        THEN IF ~IsDir(f, worktree) THEN Res(f, Panic("Expected a directory at"))
             ELSE IF Exists(f, gitdir) /\ ~is_empty_dir(f, gitdir)
             THEN Res(f, Panic("Expected empty directory at"))
             ELSE init_skeleton(f, worktree, checks)
        ELSE LET r == create_dir_all(f, gitdir)
             IN  IF r.ok THEN init_skeleton(r.fs, worktree, checks)
                 ELSE Res(r.fs, Panic("Failed to create the path"))

\* Repository::get_path_to_file: repo_file(paths, false).unwrap()
get_path_to_file(f, repo, paths, checks) ==
    LET r == repo_file(f, repo, paths, FALSE, checks)
    IN  IF r.out.kind = "panic" THEN r
        ELSE IF r.out.kind = "none"
        THEN Res(r.fs, Panic("called Option::unwrap() on a None value"))
        ELSE IF ~Exists(r.fs, r.out.path) THEN Res(r.fs, None)
        ELSE r

\* Repository::get_path_to_dir
GetPathToDirCreates(f, repo, paths) == repo_dir(f, repo, paths, TRUE)

get_path_to_dir(f, repo, paths) == repo_dir(f, repo, paths, FALSE)

\* Repository::upsert_file: the encoder is finished when it is dropped at the
\* end of the function, so the file holds the whole zlib stream
upsert_file(f, repo, paths, data, checks) ==
    LET p == repo_file(f, repo, paths, TRUE, checks)
    IN  IF p.out.kind = "panic" THEN p
        ELSE IF p.out.kind = "none" THEN Res(p.fs, Panic("Could not create path"))
        ELSE LET c == FileCreate(p.fs, p.out.path)
             IN  IF c.ok THEN Res(WriteAll(c.fs, p.out.path, ZlibEncode(data)), p.out)
                 ELSE Res(c.fs, Panic("Could not create file"))

FindRepositoryCallWithoutJoin(f, current_path) ==
    LET c == canonicalize(f, current_path)
    IN  IF ~c.ok
        THEN [done |-> TRUE, out |-> Panic("called Result::unwrap() on an Err value"),
              next |-> NoPath]
        ELSE IF Exists(f, c.path)
        THEN [done |-> TRUE, out |-> Handle(current_path), next |-> NoPath]
        ELSE IF ~HasParent(c.path)
        THEN [done |-> TRUE, out |-> None, next |-> NoPath]
        ELSE [done |-> FALSE, out |-> None, next |-> PathParent(c.path)]

\* one invocation of Repository::find_repository on current_path:
\* [done, out] when it returns or panics, [~done, next] when it recurses
find_repository_call(f, current_path) ==
    LET c == canonicalize(f, current_path)
    IN  IF ~c.ok
        THEN [done |-> TRUE, out |-> Panic("called Result::unwrap() on an Err value"),
              next |-> NoPath]
        ELSE IF Exists(f, Join(c.path, <<GitDirName>>))
        THEN [done |-> TRUE, out |-> Handle(current_path), next |-> NoPath]
        ELSE IF ~HasParent(c.path)
        THEN [done |-> TRUE, out |-> None, next |-> NoPath]
        ELSE [done |-> FALSE, out |-> None, next |-> PathParent(c.path)]

-----------------------------------------------------------------------------
(* The inputs of the calls *)

\* worktree paths handed to init; f is a regular file in every initial
\* filesystem, so f/x is an absent path below a non-directory
Worktrees == {<<"a">>, <<"a", "b">>, <<"f">>, <<"f", "x">>}

\* worktrees of the handles (Repository::new) the other calls are made on
ReadWorktrees == {<<"a">>, <<"a", "b">>}
WriteWorktrees == {<<"a">>}

\* path segments below the control directory
WriteSegs == {<<>>, <<"HEAD">>, <<"objects", "ab">>}
FileSegs == {<<>>, <<"HEAD">>, <<"objects", "ab">>}
DirSegs == {<<>>, <<"objects">>, <<"HEAD">>}

\* start paths of find_repository
StartPaths == {<<>>, <<"a", "b">>, <<"a", "b", "..">>, <<"a", ".gitrs", "objects">>,
               <<"a", "b", ".gitrs", "objects">>, <<"f">>}

\* the filesystems a run starts from, each with the regular file f below the
\* root: nothing else; a directory tree without a control directory; a
\* worktree with an empty control directory
FsFile == (<<>> :> DirNode) @@ (<<"f">> :> FileNode(<<>>))
FsWorktree == FsFile @@ (<<"a">> :> DirNode) @@ (<<"a", "b">> :> DirNode)
FsEmptyGitDir == FsFile @@ (<<"a">> :> DirNode) @@ (<<"a", ".gitrs">> :> DirNode)
InitialFilesystems == {FsFile, FsWorktree, FsEmptyGitDir}

\* the worktree both concurrent callers initialise
ConcWorktree == <<"a">>
Procs == {1, 2}

-----------------------------------------------------------------------------
(* State *)

LastIdle == [op |-> "none", worktree |-> NoPath, segs |-> <<>>, data |-> <<>>, out |-> None,
             replaced |-> FALSE]
FindIdle == [pc |-> "idle", start |-> NoPath, cur |-> NoPath, out |-> None]
ProcIdle == [pc |-> "idle", i |-> 1, passed |-> FALSE, made |-> FALSE, at |-> "idle",
             stack |-> <<>>, second |-> FALSE]

Init ==
    /\ fs \in InitialFilesystems
    /\ last = LastIdle
    /\ find = FindIdle
    /\ written = [k \in {} |-> <<>>]
    /\ inited = {}
    /\ procs = [p \in Procs |-> ProcIdle]
    /\ overflow_checks \in BOOLEAN

-----------------------------------------------------------------------------
(* The calls, one at a time (the program is single-threaded and synchronous: *)
(* a call runs to its end before the next begins)                            *)

\* replaced: a successful upsert_file at a path whose latest upsert_file held
\* another payload
Called(op, w, segs, data, out) ==
    [op |-> op, worktree |-> w, segs |-> segs, data |-> data, out |-> out,
     replaced |-> /\ op = "upsert_file" /\ out.kind = "some"
                  /\ <<w, segs>> \in DOMAIN written /\ written[<<w, segs>>] # data]

DoInit(w) ==
    /\ find.pc # "walking"
    /\ LET r == init(fs, w, overflow_checks)
       IN  /\ fs' = r.fs
           /\ last' = Called("init", w, <<>>, <<>>, r.out)
           /\ inited' = IF r.out.kind = "handle" THEN inited \cup {w} ELSE inited
    /\ find' = FindIdle
    /\ UNCHANGED <<written, procs, overflow_checks>>

DoUpsertFile(w, segs, data) ==
    /\ find.pc # "walking"
    /\ LET r == upsert_file(fs, New(w), segs, data, overflow_checks)
       IN  /\ fs' = r.fs
           /\ last' = Called("upsert_file", w, segs, data, r.out)
           /\ written' = IF r.out.kind = "some"
                         THEN [k \in DOMAIN written \cup {<<w, segs>>} |->
                                 IF k = <<w, segs>> THEN data ELSE written[k]]
                         ELSE written
    /\ find' = FindIdle
    /\ UNCHANGED <<inited, procs, overflow_checks>>

DoGetPathToFile(w, segs) ==
    /\ find.pc # "walking"
    /\ LET r == get_path_to_file(fs, New(w), segs, overflow_checks)
       IN  /\ fs' = r.fs
           /\ last' = Called("get_path_to_file", w, segs, <<>>, r.out)
    /\ find' = FindIdle
    /\ UNCHANGED <<written, inited, procs, overflow_checks>>

DoGetPathToDir(w, segs) ==
    /\ find.pc # "walking"
    /\ LET r == get_path_to_dir(fs, New(w), segs)
       IN  /\ fs' = r.fs
           /\ last' = Called("get_path_to_dir", w, segs, <<>>, r.out)
    /\ find' = FindIdle
    /\ UNCHANGED <<written, inited, procs, overflow_checks>>

\* find_repository(start) is entered
FindStart(start) ==
    /\ find.pc # "walking"
    /\ find' = [pc |-> "walking", start |-> start, cur |-> start, out |-> None]
    /\ last' = LastIdle
    /\ UNCHANGED <<fs, written, inited, procs, overflow_checks>>

\* one invocation of find_repository: it returns, panics or recurses on the parent
FindStep ==
    /\ find.pc = "walking"
    /\ LET r == find_repository_call(fs, find.cur)
       IN  find' = IF r.done THEN [find EXCEPT !.pc = "done", !.out = r.out]
                   ELSE [find EXCEPT !.cur = r.next]
    /\ UNCHANGED <<fs, last, written, inited, procs, overflow_checks>>

Next ==
    \/ \E w \in Worktrees : DoInit(w)
    \/ \E w \in WriteWorktrees, segs \in WriteSegs, data \in Payloads : DoUpsertFile(w, segs, data)
    \/ \E w \in ReadWorktrees, segs \in FileSegs : DoGetPathToFile(w, segs)
    \/ \E w \in ReadWorktrees, segs \in DirSegs : DoGetPathToDir(w, segs)
    \/ \E start \in StartPaths : FindStart(start)
    \/ FindStep

Spec == Init /\ [][Next]_vars

\* a call of find_repository, once entered, keeps running
FairSpec == Spec /\ WF_vars(FindStep)

-----------------------------------------------------------------------------
(* Two callers of init on the same worktree without external serialisation: *)
(* each filesystem call of init, every mkdir of create_dir_all included, is *)
(* a step of its caller.  passed: the caller is beyond the checks of lines  *)
(* 25-37; made: a create_dir_all of its own for a skeleton directory has    *)
(* returned; at: where it panicked; stack, second: its create_dir_all in    *)
(* progress (see CreateDirAllCall).                                         *)

ConcRepo == New(ConcWorktree)

Goto(p, pc) == procs' = [procs EXCEPT ![p].pc = pc]

PanicAt(p) == procs' = [procs EXCEPT ![p].pc = "panicked", ![p].at = procs[p].pc]

\* the position after skeleton directory i is there
AfterDir(i) == IF i < Len(SkeletonDirs) THEN "dir_check" ELSE "description_create"

\* init(worktree) is entered
CCall(p) ==
    /\ procs[p].pc = "idle"
    /\ Goto(p, "worktree_exists")
    /\ UNCHANGED <<fs, last, find, written, inited, overflow_checks>>

\* line 25: worktree.exists()
CWorktreeExists(p) ==
    /\ procs[p].pc = "worktree_exists"
    /\ IF Exists(fs, ConcWorktree) THEN Goto(p, "guard")
       ELSE procs' = [procs EXCEPT ![p].pc = "create_gitdir",
                                   ![p].stack = <<ConcRepo.gitdir>>, ![p].second = FALSE]
    /\ UNCHANGED <<fs, last, find, written, inited, overflow_checks>>

\* lines 26-32: the checks on an existing worktree
CGuard(p) ==
    /\ procs[p].pc = "guard"
    /\ IF ~IsDir(fs, ConcWorktree) THEN PanicAt(p)
       ELSE IF Exists(fs, ConcRepo.gitdir) /\ ~is_empty_dir(fs, ConcRepo.gitdir) THEN PanicAt(p)
       ELSE procs' = [procs EXCEPT ![p].pc = "dir_check", ![p].i = 1, ![p].passed = TRUE]
    /\ UNCHANGED <<fs, last, find, written, inited, overflow_checks>>

\* one mkdir of the create_dir_all caller p is in, st being the call's state
\* after it; when the call returns the caller goes on as returned says
CMkdirDone(p, returned, st) ==
    /\ fs' = st.fs
    /\ IF st.failed THEN PanicAt(p)
       ELSE IF st.stack = <<>>
       THEN procs' = [procs EXCEPT ![p] = [returned EXCEPT !.stack = <<>>, !.second = FALSE]]
       ELSE procs' = [procs EXCEPT ![p].stack = st.stack, ![p].second = st.second]

CMkdir(p, returned) ==
    CMkdirDone(p, returned,
               create_dir_all_step([fs |-> fs, stack |-> procs[p].stack,
                                    second |-> procs[p].second, failed |-> FALSE]))

\* lines 34-36: create_dir_all(gitdir) for a worktree seen absent
CCreateGitDir(p) ==
    /\ procs[p].pc = "create_gitdir"
    /\ CMkdir(p, [procs[p] EXCEPT !.pc = "dir_check", !.i = 1, !.passed = TRUE])
    /\ UNCHANGED <<last, find, written, inited, overflow_checks>>

\* repo_dir(SkeletonDirs[i], true), lines 130-135: path.exists() and is_dir()
CDirCheck(p) ==
    /\ procs[p].pc = "dir_check"
    /\ LET path == repo_path(ConcRepo, SkeletonDirs[procs[p].i])
       IN  IF Exists(fs, path)
           THEN IF ~IsDir(fs, path) THEN PanicAt(p)
                ELSE procs' = [procs EXCEPT ![p].pc = AfterDir(procs[p].i),
                                            ![p].i = procs[p].i + 1]
           ELSE procs' = [procs EXCEPT ![p].pc = "dir_create", ![p].stack = <<path>>,
                                       ![p].second = FALSE]
    /\ UNCHANGED <<fs, last, find, written, inited, overflow_checks>>

\* repo_dir(SkeletonDirs[i], true), lines 136-139: create_dir_all(path)
CDirCreate(p) ==
    /\ procs[p].pc = "dir_create"
    /\ CMkdir(p, [procs[p] EXCEPT !.pc = AfterDir(procs[p].i), !.i = procs[p].i + 1,
                                  !.made = TRUE])
    /\ UNCHANGED <<last, find, written, inited, overflow_checks>>

\* repo_file(paths, false) and File::create of a seed file
CSeedCreate(p, pc, paths, then) ==
    /\ procs[p].pc = pc
    /\ LET r == repo_file(fs, ConcRepo, paths, FALSE, overflow_checks)
           c == FileCreate(fs, repo_path(ConcRepo, paths))
       IN  IF r.out.kind = "some" /\ c.ok
           THEN fs' = c.fs /\ Goto(p, then)
           ELSE fs' = fs /\ PanicAt(p)
    /\ UNCHANGED <<last, find, written, inited, overflow_checks>>

\* write_all of a seed file's content
CSeedWrite(p, pc, paths, content, then) ==
    /\ procs[p].pc = pc
    /\ fs' = WriteAll(fs, repo_path(ConcRepo, paths), content)
    /\ Goto(p, then)
    /\ UNCHANGED <<last, find, written, inited, overflow_checks>>

CDescriptionCreate(p) == CSeedCreate(p, "description_create", <<"description">>, "description_write")

CDescriptionWrite(p) ==
    CSeedWrite(p, "description_write", <<"description">>, DescriptionContent, "head_create")

CHeadCreate(p) == CSeedCreate(p, "head_create", <<"HEAD">>, "head_write")

\* after the last write init returns the handle
CHeadWrite(p) == CSeedWrite(p, "head_write", <<"HEAD">>, HeadContent, "done")

ConcNext ==
    \E p \in Procs :
        \/ CCall(p)
        \/ CWorktreeExists(p)
        \/ CGuard(p)
        \/ CCreateGitDir(p)
        \/ CDirCheck(p)
        \/ CDirCreate(p)
        \/ CDescriptionCreate(p)
        \/ CDescriptionWrite(p)
        \/ CHeadCreate(p)
        \/ CHeadWrite(p)

ConcSpec == Init /\ [][ConcNext]_vars

-----------------------------------------------------------------------------
(* Properties *)

GitDir(w) == Join(w, <<GitDirName>>)

\* The decompressor matching ZlibEncode (zlib's inflate) for the round-trip
\* property: header, one fixed-Huffman block of literals, checksum.  Bytes
\* after the end of the stream are not read.
UnpackBits(bytes) == [i \in 1..(8 * Len(bytes)) |-> (bytes[((i - 1) \div 8) + 1] \div Pow2((i - 1) % 8)) % 2]

BitsValue(bits, pos, n) ==
    IF pos + n - 1 > Len(bits) THEN -1
    ELSE LET RECURSIVE Val(_, _)
             Val(i, acc) == IF i = n THEN acc ELSE Val(i + 1, 2 * acc + bits[pos + i])
         IN  Val(0, 0)

\* decodes literals from bit position pos; [ok, data, next]: next is the
\* first bit after the end-of-block code
RECURSIVE InflateLits(_, _, _)
InflateLits(bits, pos, acc) ==
    LET v7 == BitsValue(bits, pos, 7)
        v8 == BitsValue(bits, pos, 8)
        v9 == BitsValue(bits, pos, 9)
    IN  IF v7 = 0 THEN [ok |-> TRUE, data |-> acc, next |-> pos + 7]
        ELSE IF v8 >= 48 /\ v8 <= 191 THEN InflateLits(bits, pos + 8, Append(acc, v8 - 48))
        ELSE IF v9 >= 400 /\ v9 <= 511 THEN InflateLits(bits, pos + 9, Append(acc, v9 - 256))
        ELSE [ok |-> FALSE, data |-> <<>>, next |-> pos]

ZlibDecode(bytes) ==
    IF Len(bytes) < 2 \/ SubSeq(bytes, 1, 2) # <<120, 156>> THEN [ok |-> FALSE, data |-> <<>>]
    ELSE LET bits == UnpackBits(SubSeq(bytes, 3, Len(bytes)))
         IN  IF Len(bits) < 3 \/ SubSeq(bits, 1, 3) # <<1, 1, 0>> THEN [ok |-> FALSE, data |-> <<>>]
             ELSE LET r == InflateLits(bits, 4, <<>>)
                      used == 2 + ((r.next - 1) + 7) \div 8
                  IN  IF r.ok /\ Len(bytes) >= used + 4
                         /\ SubSeq(bytes, used + 1, used + 4) = Adler32Bytes(r.data)
                      THEN [ok |-> TRUE, data |-> r.data]
                      ELSE [ok |-> FALSE, data |-> <<>>]

\* the layout of section 6 below worktree w, contents aside
SkeletonComplete(f, w) ==
    /\ IsDir(f, w)
    /\ IsDir(f, GitDir(w))
    /\ \A i \in 1..Len(SkeletonDirs) :
          /\ IsDir(f, Join(GitDir(w), SkeletonDirs[i]))
          /\ Entries(f, Join(GitDir(w), SkeletonDirs[i])) = {}
    /\ IsFile(f, Join(GitDir(w), <<"description">>))
    /\ IsFile(f, Join(GitDir(w), <<"HEAD">>))

\* w does not exist, or is a directory whose .gitrs is absent or an empty directory
Initialisable(f, w) ==
    \/ ~Exists(f, w)
    \/ /\ IsDir(f, w)
       /\ (~Exists(f, GitDir(w)) \/ is_empty_dir(f, GitDir(w)))

\* C1 as claimed: init(W) on a worktree that does not exist, or is a
\* directory whose .gitrs is absent or empty, returns a handle, and afterwards
\* W and W/.gitrs are directories, the four skeleton directories exist and
\* are empty, and description and HEAD are regular files.
C1_AnyAbsentWorktree ==
    [][\A w \in Worktrees :
          (last'.op = "init" /\ last'.worktree = w /\ Initialisable(fs, w))
             => (last'.out = Handle(w) /\ SkeletonComplete(fs', w))]_vars

\* no ancestor of w, and not w itself, is something other than a directory
BelowDirectories(f, w) == \A q \in Prefixes(w) : Exists(f, q) => IsDir(f, q)

\* C1 amended: init(W) on a worktree that does not exist and has no
\* non-directory among its ancestors, or is a directory whose .gitrs is absent
\* or empty, returns a handle, and afterwards W and W/.gitrs are directories,
\* the four skeleton directories exist and are empty, and description and HEAD
\* are regular files.
C1_SkeletonCompleteness ==
    [][\A w \in Worktrees :
          (/\ last'.op = "init"
           /\ last'.worktree = w
           /\ Initialisable(fs, w)
           /\ BelowDirectories(fs, w))
             => (last'.out = Handle(w) /\ SkeletonComplete(fs', w))]_vars

\* init has just returned a handle for a/b, below a directory a that holds no .gitrs
C1_Witness ==
    /\ last.op = "init"
    /\ last.out = Handle(<<"a", "b">>)
    /\ ~Exists(fs, GitDir(<<"a">>))
    /\ SkeletonComplete(fs, <<"a", "b">>)

\* the seed contents of section 6
SpecDescriptionContent ==
    <<85, 110, 110, 97, 109, 101, 100, 32, 114, 101, 112, 111, 115, 105, 116, 111,
      114, 121, 59, 32, 101, 100, 105, 116, 32, 116, 104, 105, 115, 32, 102, 105,
      108, 101, 32, 39, 100, 101, 115, 99, 114, 105, 112, 116, 105, 111, 110, 39,
      32, 116, 111, 32, 110, 97, 109, 101, 32, 116, 104, 101, 32, 114, 101, 112,
      111, 115, 105, 116, 111, 114, 121, 46, 10>>

SpecHeadContent ==
    <<114, 101, 102, 58, 32, 114, 101, 102, 115, 47, 104, 101, 97, 100, 115, 47,
      109, 97, 115, 116, 101, 114, 10>>

\* C2: after init(W) succeeds, .gitrs/description holds exactly "Unnamed
\* repository; edit this file 'description' to name the repository.\n" and
\* .gitrs/HEAD holds exactly "ref: refs/heads/master\n".
C2_SeedContents ==
    (last.op = "init" /\ last.out.kind = "handle")
       => /\ fs[Join(GitDir(last.worktree), <<"description">>)] = FileNode(SpecDescriptionContent)
          /\ fs[Join(GitDir(last.worktree), <<"HEAD">>)] = FileNode(SpecHeadContent)

\* C3: init(W) on a worktree whose .gitrs exists and is not empty (as after a
\* successful init of W, whatever upsert_file calls followed) fails with the
\* RepositoryAlreadyExists panic, returns no handle and leaves the filesystem
\* as it was.
C3_ReinitGuard ==
    [][\A w \in Worktrees :
          (/\ last'.op = "init"
           /\ last'.worktree = w
           /\ \/ w \in inited
              \/ (IsDir(fs, GitDir(w)) /\ Entries(fs, GitDir(w)) # {}))
             => (last'.out = Panic("Expected empty directory at") /\ fs' = fs)]_vars

\* init of a has just been refused, after an init of a and an upsert_file on it
C3_Witness ==
    /\ last.op = "init"
    /\ last.out = Panic("Expected empty directory at")
    /\ last.worktree \in inited
    /\ \E k \in DOMAIN written : k[1] = last.worktree

\* the ancestor-or-self directories of the canonical path c that hold a .gitrs entry
RepoAncestors(f, c) == {q \in Prefixes(c) : Exists(f, Join(q, <<GitDirName>>))}

Nearest(f, c) == CHOOSE q \in RepoAncestors(f, c) : \A r \in RepoAncestors(f, c) : Len(r) <= Len(q)

\* C4: for an existing start directory D with a .gitrs entry in D or an
\* ancestor, find_repository(D) returns a handle whose worktree is the nearest
\* such directory; when that is a proper ancestor of D the worktree is its
\* canonical path.
C4_NearestEnclosing ==
    (find.pc = "done" /\ canonicalize(fs, find.start).ok)
       => LET c == canonicalize(fs, find.start).path
          IN  (IsDir(fs, c) /\ RepoAncestors(fs, c) # {})
                 => /\ find.out.kind = "handle"
                    /\ canonicalize(fs, find.out.path) = [ok |-> TRUE, path |-> Nearest(fs, c)]
                    /\ (Nearest(fs, c) # c => find.out.path = Nearest(fs, c))

\* from two levels inside the inner of two nested repositories the inner one is found
C4_Witness ==
    /\ find.pc = "done"
    /\ find.start = <<"a", "b", ".gitrs", "objects">>
    /\ Exists(fs, GitDir(<<"a">>))
    /\ find.out = Handle(<<"a", "b">>)

\* C5: for an existing start directory D with no .gitrs entry in D or any
\* ancestor, the walk of find_repository(D) ends, and it returns None.
C5_NoRepositoryFound ==
    (/\ find.pc = "walking"
     /\ find.cur = find.start
     /\ canonicalize(fs, find.start).ok
     /\ IsDir(fs, canonicalize(fs, find.start).path)
     /\ RepoAncestors(fs, canonicalize(fs, find.start).path) = {})
       ~> (find.pc = "done" /\ find.out = None)

\* the walk from a/b has reached the root and returned None
C5_Witness ==
    /\ find.pc = "done"
    /\ find.start = <<"a", "b">>
    /\ IsDir(fs, <<"a", "b">>)
    /\ RepoAncestors(fs, <<"a", "b">>) = {}
    /\ find.out = None

\* C6: when the start path cannot be canonicalized, find_repository returns
\* to its caller an error value, which is neither None nor a handle.
C6_PathResolutionError ==
    (find.pc = "done" /\ ~canonicalize(fs, find.start).ok)
       => find.out.kind \notin {"none", "handle", "panic"}

\* C7: every path written by upsert_file is a file that holds exactly the
\* zlib stream of the latest payload written there, and decompresses to it.
C7_LastWriteWins ==
    \A k \in DOMAIN written :
        LET path == repo_path(New(k[1]), k[2])
        IN  /\ IsFile(fs, path)
            /\ ZlibDecode(fs[path].data) = [ok |-> TRUE, data |-> written[k]]
            /\ fs[path].data = ZlibEncode(written[k])

\* both paths are written, the last call having replaced another payload
C7_Witness ==
    /\ last.op = "upsert_file"
    /\ last.replaced
    /\ Cardinality(DOMAIN written) = 2
    /\ written[<<last.worktree, last.segs>>] = last.data

\* C8: get_path_to_dir and get_path_to_file leave the filesystem as it is,
\* whatever they return, and get_path_to_dir on a path that does not exist
\* returns None.
C8_ReadOnlyResolution ==
    [][(last'.op \in {"get_path_to_dir", "get_path_to_file"})
          => /\ fs' = fs
             /\ (/\ last'.op = "get_path_to_dir"
                 /\ ~Exists(fs, repo_path(New(last'.worktree), last'.segs)))
                   => last'.out = None]_vars

\* get_path_to_dir has returned None for objects below a worktree without .gitrs
C8_Witness ==
    /\ last.op = "get_path_to_dir"
    /\ last.segs = <<"objects">>
    /\ ~Exists(fs, repo_path(New(last.worktree), last.segs))
    /\ last.out = None

\* C9: get_path_to_file on a non-empty list of segments returns None, without
\* failing, whenever the target file does not exist (its parent directory
\* existing or not), and the joined path exactly when the target exists.
C9_AbsenceIsNormal ==
    (last.op = "get_path_to_file" /\ last.segs # <<>>)
       => LET path == repo_path(New(last.worktree), last.segs)
          IN  last.out = IF Exists(fs, path) THEN SomePath(path) ELSE None

\* C10: a caller of init that has passed the checks of lines 25-37 is never
\* stopped by the other caller's progress: it does not panic, and when both
\* have returned the skeleton is complete and the seed files hold what init writes.
C10_BothProceed ==
    /\ \A p \in Procs : procs[p].passed => procs[p].pc # "panicked"
    /\ (\A p \in Procs : procs[p].pc = "done")
          => /\ SkeletonComplete(fs, ConcWorktree)
             /\ fs[repo_path(ConcRepo, <<"description">>)] = FileNode(DescriptionContent)
             /\ fs[repo_path(ConcRepo, <<"HEAD">>)] = FileNode(HeadContent)

\* both callers passed the checks, both created skeleton directories, both returned
C10_Witness ==
    \A p \in Procs : procs[p].passed /\ procs[p].made /\ procs[p].pc = "done"

====
